---- MODULE Spec2Model ----
(***************************************************************************)
(* Model of tensorflow_datasets/core/features/text/text_encoder.py:        *)
(* ByteTextEncoder, TokenTextEncoder, Tokenizer, the pad helpers and the   *)
(* line-based file format.                                                 *)
(*                                                                         *)
(* Text is a sequence of Unicode code points (naturals), a byte string a   *)
(* sequence of naturals below 256, an id sequence a sequence of integers.  *)
(* A Python call that may raise is modelled by a result record             *)
(* [status, val]: status "ok" and the returned value, or the name of the   *)
(* exception and an empty value.                                           *)
(***************************************************************************)
EXTENDS Integers, Sequences, FiniteSets, TLC

VARIABLES pc, enc, enc2, files, tkz, op, arg, res, res2, res3, toks

vars == <<pc, enc, enc2, files, tkz, op, arg, res, res2, res3, toks>>

(***************************************************************************)
(* Bounds of the model.                                                    *)
(***************************************************************************)
MaxTextLen == 3
MaxVocab == 2
MaxOov == 2
MaxIdsLen == 2
MaxId == 2

NUM_BYTES == 256

(***************************************************************************)
(* Characters.  The alphabets hold no regular-expression metacharacter, so *)
(* a reserved token placed in an alternation matches itself literally.     *)
(***************************************************************************)
\* "UNK", the default oov_token
UNK == <<85, 78, 75>>

\* u" "
Space == <<32>>

\* Characters of the texts given to the token encoder and the tokenizer.
\* "a", "A", "-"
Alphabet == {97, 65, 45}
\* Characters of the texts given to the byte encoder (one two-byte character).
\* "a", "-", e-acute (U+00E9)
ByteAlphabet == {97, 45, 233}

\* \w of a re.UNICODE pattern, on the Latin-1 code points
IsWord(c) ==
  c \in (48..57) \cup (65..90) \cup {95} \cup (97..122)
        \cup {170, 178, 179, 181, 185, 186, 188, 189, 190}
        \cup (192..214) \cup (216..246) \cup (248..255)

\* str.lower, on the Latin-1 code points
LowerChar(c) ==
  IF c \in (65..90) \cup (192..214) \cup (216..222) THEN c + 32 ELSE c

Lower(s) == [i \in 1..Len(s) |-> LowerChar(s[i])]

\* the characters str.strip() removes, on the Latin-1 code points
IsSpace(c) == c \in (9..13) \cup (28..32) \cup {133, 160}

RECURSIVE LStrip(_)
LStrip(s) ==
  IF s # <<>> /\ IsSpace(Head(s)) THEN LStrip(Tail(s)) ELSE s

RECURSIVE RStrip(_)
RStrip(s) ==
  IF s # <<>> /\ IsSpace(s[Len(s)]) THEN RStrip(SubSeq(s, 1, Len(s) - 1)) ELSE s

Strip(s) == RStrip(LStrip(s))

\* sequences over S of length at most n
SeqsUpTo(S, n) == UNION {[1..k -> S] : k \in 0..n}

\* [x for x in xs if x]
RECURSIVE NonEmpty(_)
NonEmpty(xs) ==
  IF xs = <<>> THEN <<>>
  ELSE (IF Head(xs) = <<>> THEN <<>> ELSE <<Head(xs)>>) \o NonEmpty(Tail(xs))

\* sep.join(xs)
RECURSIVE JoinWith(_, _)
JoinWith(sep, xs) ==
  IF xs = <<>> THEN <<>>
  ELSE IF Len(xs) = 1 THEN xs[1]
  ELSE xs[1] \o sep \o JoinWith(sep, Tail(xs))

\* tf.compat.as_bytes of text: its UTF-8 encoding (code points below 65536)
RECURSIVE Utf8Encode(_)
Utf8Encode(s) ==
  IF s = <<>> THEN <<>>
  ELSE LET c == Head(s) IN
       (IF c < 128 THEN <<c>>
        ELSE IF c < 2048 THEN <<192 + (c \div 64), 128 + (c % 64)>>
        ELSE <<224 + (c \div 4096), 128 + ((c \div 64) % 64), 128 + (c % 64)>>)
       \o Utf8Encode(Tail(s))

IsCont(b, i) == Len(b) >= i /\ b[i] \in 128..191

\* the number of bytes of the well-formed UTF-8 character that starts the byte
\* string b, or 0 when none does
Utf8Width(b) ==
  LET l == b[1] IN
  IF l < 128 THEN 1
  ELSE IF l \in 194..223 /\ IsCont(b, 2) THEN 2
  ELSE IF l \in 224..239 /\ IsCont(b, 2) /\ IsCont(b, 3)
          /\ (l = 224 => b[2] >= 160) /\ (l = 237 => b[2] <= 159) THEN 3
  ELSE IF l \in 240..244 /\ IsCont(b, 2) /\ IsCont(b, 3) /\ IsCont(b, 4)
          /\ (l = 240 => b[2] >= 144) /\ (l = 244 => b[2] <= 143) THEN 4
  ELSE 0

RECURSIVE Utf8Valid(_)
Utf8Valid(b) ==
  IF b = <<>> THEN TRUE
  ELSE LET w == Utf8Width(b) IN
       w > 0 /\ Utf8Valid(SubSeq(b, w + 1, Len(b)))

RECURSIVE Utf8Chars(_)
Utf8Chars(b) ==
  IF b = <<>> THEN <<>>
  ELSE LET w == Utf8Width(b)
           c == CASE w = 1 -> b[1]
                  [] w = 2 -> (b[1] - 192) * 64 + (b[2] - 128)
                  [] w = 3 -> (b[1] - 224) * 4096 + (b[2] - 128) * 64 + (b[3] - 128)
                  [] w = 4 -> (b[1] - 240) * 262144 + (b[2] - 128) * 4096
                              + (b[3] - 128) * 64 + (b[4] - 128)
       IN <<c>> \o Utf8Chars(SubSeq(b, w + 1, Len(b)))

Ok(v) == [status |-> "ok", val |-> v]
Raise(e) == [status |-> e, val |-> <<>>]
NoResult == [status |-> "none", val |-> <<>>]

\* tf.compat.as_text(bytes(bytearray(ids))): bytearray rejects a value outside
\* range(0, 256), the UTF-8 decoder an ill-formed sequence
BytesToText(ids) ==
  IF \E i \in 1..Len(ids) : ids[i] < 0 \/ ids[i] >= NUM_BYTES THEN Raise("ValueError")
  ELSE IF ~Utf8Valid(ids) THEN Raise("UnicodeDecodeError")
  ELSE Ok(Utf8Chars(ids))

(***************************************************************************)
(* Regular expressions: ALPHANUM_REGEX, ALL_REGEX and the alternation of   *)
(* reserved tokens, each used through re.split.                            *)
(***************************************************************************)
\* the length of the run of non-word characters that starts s
RECURSIVE NonWordRun(_)
NonWordRun(s) ==
  IF s = <<>> \/ IsWord(Head(s)) THEN 0 ELSE 1 + NonWordRun(Tail(s))

\* re.split of \W+ (keep = FALSE: ALPHANUM_REGEX) or (\W+) (keep = TRUE:
\* ALL_REGEX, whose group puts the separators in the result); cur is the
\* piece before the next separator read so far
RECURSIVE ReSplitW(_, _, _)
ReSplitW(s, keep, cur) ==
  IF s = <<>> THEN <<cur>>
  ELSE IF IsWord(Head(s)) THEN ReSplitW(Tail(s), keep, Append(cur, Head(s)))
  ELSE LET n == NonWordRun(s) IN
       <<cur>> \o (IF keep THEN <<SubSeq(s, 1, n)>> ELSE <<>>)
               \o ReSplitW(SubSeq(s, n + 1, Len(s)), keep, <<>>)

ALPHANUM_REGEX_split(s) == ReSplitW(s, FALSE, <<>>)
ALL_REGEX_split(s) == ReSplitW(s, TRUE, <<>>)

Min(S) == CHOOSE x \in S : \A y \in S : x <= y

\* The match of (t1|...|tn) at position pos of s: the length of the first
\* alternative that matches there, or -1.  With adv (the previous match was
\* empty and ended here) an empty match is refused, as re.split does since
\* Python 3.7; only an empty reserved token can match the empty string.
AltMatchLen(tokens, s, pos, adv) ==
  LET ks == {k \in 1..Len(tokens) :
               /\ pos + Len(tokens[k]) - 1 <= Len(s)
               /\ SubSeq(s, pos, pos + Len(tokens[k]) - 1) = tokens[k]
               /\ (adv => Len(tokens[k]) > 0)}
  IN IF ks = {} THEN -1 ELSE Len(tokens[Min(ks)])

\* the leftmost match at or after pos: <<position, length>>, or <<0, -1>>
RECURSIVE AltSearch(_, _, _, _)
AltSearch(tokens, s, pos, adv) ==
  IF pos > Len(s) + 1 THEN <<0, -1>>
  ELSE LET m == AltMatchLen(tokens, s, pos, adv) IN
       IF m >= 0 THEN <<pos, m>> ELSE AltSearch(tokens, s, pos + 1, FALSE)

\* re.split of the pattern of _prepare_reserved_tokens, from position pos
RECURSIVE ReSplitTokensFrom(_, _, _, _)
ReSplitTokensFrom(tokens, s, pos, adv) ==
  LET f == AltSearch(tokens, s, pos, adv) IN
  IF f[2] < 0 THEN <<SubSeq(s, pos, Len(s))>>
  ELSE <<SubSeq(s, pos, f[1] - 1), SubSeq(s, f[1], f[1] + f[2] - 1)>>
       \o ReSplitTokensFrom(tokens, s, f[1] + f[2], f[2] = 0)

ReservedSplit(tokens, s) == ReSplitTokensFrom(tokens, s, 1, FALSE)

Range(f) == {f[i] : i \in DOMAIN f}

HasDuplicates(els) ==
  \E i, j \in 1..Len(els) : i < j /\ els[i] = els[j]

IsMixedAlphanum(token) == Len(NonEmpty(ALL_REGEX_split(token))) > 1

(***************************************************************************)
(* Padding.                                                                *)
(***************************************************************************)
\* PadIncr without the increment for the pad id
PadIncrNoShift(ids) == ids

PadIncr(ids) == [i \in 1..Len(ids) |-> ids[i] + 1]

\* ids[idx] with idx = -1, -2, ... raises IndexError once idx runs off the
\* front: on the empty list and on a list of zeros only
PadDecr(ids) ==
  LET nz == {i \in 1..Len(ids) : ids[i] # 0} IN
  IF nz = {} THEN Raise("IndexError")
  ELSE LET n == CHOOSE i \in nz : \A j \in nz : j <= i IN
       Ok([i \in 1..n |-> ids[i] - 1])

(***************************************************************************)
(* Tokenizer.                                                              *)
(***************************************************************************)
NoTokenizer == [kind |-> "none", alphanum_only |-> TRUE, reserved |-> <<>>]

\* Tokenizer.__init__; the constructor raises ValueError on duplicates
NewTokenizer(alphanum_only, reserved_tokens) ==
  IF HasDuplicates(reserved_tokens)
  THEN [status |-> "ValueError", obj |-> NoTokenizer]
  ELSE [status |-> "ok",
        obj |-> [kind |-> "tokenizer", alphanum_only |-> alphanum_only,
                 reserved |-> reserved_tokens]]

RECURSIVE TokenizeSubstrs(_, _)
TokenizeSubstrs(t, substrs) ==
  IF substrs = <<>> THEN <<>>
  ELSE (IF Head(substrs) \in Range(t.reserved) THEN <<Head(substrs)>>
        ELSE IF t.alphanum_only THEN ALPHANUM_REGEX_split(Head(substrs))
        ELSE ALL_REGEX_split(Head(substrs)))
       \o TokenizeSubstrs(t, Tail(substrs))

Tokenize(t, s) ==
  LET substrs == IF t.reserved # <<>> THEN ReservedSplit(t.reserved, s) ELSE <<s>>
  IN NonEmpty(TokenizeSubstrs(t, substrs))

\* Join that joins with a space in either mode
JoinWithSpaces(t, tokens) == JoinWith(Space, tokens)

Join(t, tokens) ==
  IF t.alphanum_only THEN JoinWith(Space, tokens) ELSE JoinWith(<<>>, tokens)

(***************************************************************************)
(* int(hashlib.md5(token).hexdigest(), 16) % 60 of the UTF-8 bytes of the  *)
(* tokens the model can hash.  oov_buckets stays a divisor of 60, so       *)
(* (h % 60) % oov_buckets = h % oov_buckets.                               *)
(***************************************************************************)
Md5Table ==
  <<97>> :> 37 @@ <<65>> :> 25 @@ <<45>> :> 11 @@
  <<97, 97>> :> 26 @@ <<97, 65>> :> 26 @@ <<97, 45>> :> 3 @@
  <<65, 97>> :> 56 @@ <<65, 65>> :> 14 @@ <<65, 45>> :> 5 @@
  <<45, 97>> :> 23 @@ <<45, 65>> :> 44 @@ <<45, 45>> :> 18 @@
  <<97, 97, 97>> :> 32 @@ <<97, 97, 65>> :> 59 @@ <<97, 97, 45>> :> 39 @@
  <<97, 65, 97>> :> 36 @@ <<97, 65, 65>> :> 22 @@ <<97, 65, 45>> :> 51 @@
  <<97, 45, 97>> :> 3 @@ <<97, 45, 65>> :> 55 @@ <<97, 45, 45>> :> 51 @@
  <<65, 97, 97>> :> 2 @@ <<65, 97, 65>> :> 16 @@ <<65, 97, 45>> :> 49 @@
  <<65, 65, 97>> :> 15 @@ <<65, 65, 65>> :> 19 @@ <<65, 65, 45>> :> 33 @@
  <<65, 45, 97>> :> 32 @@ <<65, 45, 65>> :> 45 @@ <<65, 45, 45>> :> 15 @@
  <<45, 97, 97>> :> 6 @@ <<45, 97, 65>> :> 46 @@ <<45, 97, 45>> :> 50 @@
  <<45, 65, 97>> :> 23 @@ <<45, 65, 65>> :> 18 @@ <<45, 65, 45>> :> 51 @@
  <<45, 45, 97>> :> 59 @@ <<45, 45, 65>> :> 31 @@ <<45, 45, 45>> :> 26 @@
  <<97, 97, 97, 97>> :> 9 @@ <<97, 97, 97, 65>> :> 57 @@ <<97, 97, 97, 45>> :> 17 @@
  <<97, 97, 65, 97>> :> 35 @@ <<97, 97, 65, 65>> :> 18 @@ <<97, 97, 65, 45>> :> 4 @@
  <<97, 97, 45, 97>> :> 21 @@ <<97, 97, 45, 65>> :> 6 @@ <<97, 97, 45, 45>> :> 3 @@
  <<97, 65, 97, 97>> :> 55 @@ <<97, 65, 97, 65>> :> 54 @@ <<97, 65, 97, 45>> :> 22 @@
  <<97, 65, 65, 97>> :> 1 @@ <<97, 65, 65, 65>> :> 7 @@ <<97, 65, 65, 45>> :> 47 @@
  <<97, 65, 45, 97>> :> 56 @@ <<97, 65, 45, 65>> :> 3 @@ <<97, 65, 45, 45>> :> 56 @@
  <<97, 45, 97, 97>> :> 7 @@ <<97, 45, 97, 65>> :> 50 @@ <<97, 45, 97, 45>> :> 3 @@
  <<97, 45, 65, 97>> :> 48 @@ <<97, 45, 65, 65>> :> 18 @@ <<97, 45, 65, 45>> :> 53 @@
  <<97, 45, 45, 97>> :> 38 @@ <<97, 45, 45, 65>> :> 15 @@ <<97, 45, 45, 45>> :> 8 @@
  <<65, 97, 97, 97>> :> 56 @@ <<65, 97, 97, 65>> :> 4 @@ <<65, 97, 97, 45>> :> 30 @@
  <<65, 97, 65, 97>> :> 1 @@ <<65, 97, 65, 65>> :> 42 @@ <<65, 97, 65, 45>> :> 30 @@
  <<65, 97, 45, 97>> :> 18 @@ <<65, 97, 45, 65>> :> 17 @@ <<65, 97, 45, 45>> :> 40 @@
  <<65, 65, 97, 97>> :> 45 @@ <<65, 65, 97, 65>> :> 33 @@ <<65, 65, 97, 45>> :> 53 @@
  <<65, 65, 65, 97>> :> 57 @@ <<65, 65, 65, 65>> :> 2 @@ <<65, 65, 65, 45>> :> 13 @@
  <<65, 65, 45, 97>> :> 30 @@ <<65, 65, 45, 65>> :> 19 @@ <<65, 65, 45, 45>> :> 37 @@
  <<65, 45, 97, 97>> :> 42 @@ <<65, 45, 97, 65>> :> 48 @@ <<65, 45, 97, 45>> :> 13 @@
  <<65, 45, 65, 97>> :> 58 @@ <<65, 45, 65, 65>> :> 37 @@ <<65, 45, 65, 45>> :> 54 @@
  <<65, 45, 45, 97>> :> 23 @@ <<65, 45, 45, 65>> :> 10 @@ <<65, 45, 45, 45>> :> 56 @@
  <<45, 97, 97, 97>> :> 34 @@ <<45, 97, 97, 65>> :> 30 @@ <<45, 97, 97, 45>> :> 51 @@
  <<45, 97, 65, 97>> :> 52 @@ <<45, 97, 65, 65>> :> 2 @@ <<45, 97, 65, 45>> :> 58 @@
  <<45, 97, 45, 97>> :> 56 @@ <<45, 97, 45, 65>> :> 39 @@ <<45, 97, 45, 45>> :> 23 @@
  <<45, 65, 97, 97>> :> 12 @@ <<45, 65, 97, 65>> :> 38 @@ <<45, 65, 97, 45>> :> 16 @@
  <<45, 65, 65, 97>> :> 31 @@ <<45, 65, 65, 65>> :> 12 @@ <<45, 65, 65, 45>> :> 19 @@
  <<45, 65, 45, 97>> :> 38 @@ <<45, 65, 45, 65>> :> 14 @@ <<45, 65, 45, 45>> :> 49 @@
  <<45, 45, 97, 97>> :> 11 @@ <<45, 45, 97, 65>> :> 17 @@ <<45, 45, 97, 45>> :> 34 @@
  <<45, 45, 65, 97>> :> 26 @@ <<45, 45, 65, 65>> :> 34 @@ <<45, 45, 65, 45>> :> 18 @@
  <<45, 45, 45, 97>> :> 39 @@ <<45, 45, 45, 65>> :> 17 @@ <<45, 45, 45, 45>> :> 24 @@
  <<32>> :> 3 @@ <<85, 78, 75>> :> 40 @@ <<117, 110, 107>> :> 41

Md5Mod(token, n) == Md5Table[token] % n

(***************************************************************************)
(* The encoders.  An encoder object is a record; tokens holds              *)
(* _additional_tokens of a ByteTextEncoder and _vocab_list of a            *)
(* TokenTextEncoder.  A dict built by dict(zip(keys, range(n))) maps a key *)
(* that occurs several times to the index of its last occurrence.          *)
(***************************************************************************)
NoEncoder ==
  [kind |-> "none", tokens |-> <<>>, oov_buckets |-> 0, oov_token |-> <<>>,
   lowercase |-> FALSE, tokenizer |-> NoTokenizer, user_tokenizer |-> FALSE]

\* DictZipGet keeping the first occurrence of a key instead of the last
DictZipGetFirst(keys, key) ==
  LET ks == {k \in 1..Len(keys) : keys[k] = key} IN
  IF ks = {} THEN -1 ELSE (CHOOSE k \in ks : \A j \in ks : k <= j) - 1

\* dict(zip(keys, range(len(keys)))).get(key, -1)
DictZipGet(keys, key) ==
  LET ks == {k \in 1..Len(keys) : keys[k] = key} IN
  IF ks = {} THEN -1 ELSE (CHOOSE k \in ks : \A j \in ks : j <= k) - 1

\* ByteTextEncoder.__init__ (_prepare_reserved_tokens raises on duplicates)
NewByteTextEncoder(additional_tokens) ==
  IF HasDuplicates(additional_tokens)
  THEN [status |-> "ValueError", obj |-> NoEncoder]
  ELSE [status |-> "ok",
        obj |-> [NoEncoder EXCEPT !.kind = "byte", !.tokens = additional_tokens]]

\* TokenTextEncoder.__init__; given says whether a tokenizer was passed
NewTokenTextEncoder(vocab_list, oov_buckets, oov_token, lowercase, given, tokenizer) ==
  LET stripped == [i \in 1..Len(vocab_list) |-> Strip(vocab_list[i])]
      vl == IF lowercase THEN [i \in 1..Len(stripped) |-> Lower(stripped[i])]
            ELSE stripped
      reserved_tokens == SelectSeq(vl, IsMixedAlphanum)
      t == IF given THEN [status |-> "ok", obj |-> tokenizer]
           ELSE NewTokenizer(TRUE, reserved_tokens)
  IN IF t.status # "ok" THEN [status |-> t.status, obj |-> NoEncoder]
     ELSE [status |-> "ok",
           obj |-> [kind |-> "token", tokens |-> vl, oov_buckets |-> oov_buckets,
                    oov_token |-> oov_token, lowercase |-> lowercase,
                    tokenizer |-> t.obj, user_tokenizer |-> given]]

VocabSize(e) ==
  IF e.kind = "byte" THEN Len(e.tokens) + NUM_BYTES + 1
  ELSE Len(e.tokens) + e.oov_buckets + 1

\* ByteTextEncoder.encode, the loop over the pieces of the split
RECURSIVE ByteEncodeSubstrs(_, _)
ByteEncodeSubstrs(e, substrs) ==
  IF substrs = <<>> THEN <<>>
  ELSE LET substr == Head(substrs)
           tok_id == DictZipGet(e.tokens, substr)
           offset == Len(e.tokens)
           bytes == Utf8Encode(substr)
           tok_ids == IF substr = <<>> THEN <<>>
                      ELSE IF tok_id < 0
                           THEN [i \in 1..Len(bytes) |-> bytes[i] + offset]
                      ELSE <<tok_id>>
       IN tok_ids \o ByteEncodeSubstrs(e, Tail(substrs))

ByteEncode(e, s) ==
  IF e.tokens = <<>> THEN Ok(PadIncr(Utf8Encode(s)))
  ELSE Ok(PadIncr(ByteEncodeSubstrs(e, ReservedSplit(e.tokens, s))))

ByteDecode(e, ids) ==
  LET d == PadDecr(ids) IN
  IF d.status # "ok" THEN d ELSE BytesToText(d.val)

\* OovBucket falling back to the bucket after the vocabulary when there are
\* no buckets
OovBucketNoNone(e, token) ==
  IF e.oov_buckets <= 1 THEN [none |-> FALSE, id |-> Len(e.tokens)]
  ELSE [none |-> FALSE, id |-> Len(e.tokens) + Md5Mod(token, e.oov_buckets)]

\* TokenTextEncoder._oov_bucket; none stands for the None it returns
OovBucket(e, token) ==
  IF e.oov_buckets <= 0 THEN [none |-> TRUE, id |-> 0]
  ELSE IF e.oov_buckets = 1 THEN [none |-> FALSE, id |-> Len(e.tokens)]
  ELSE [none |-> FALSE, id |-> Len(e.tokens) + Md5Mod(token, e.oov_buckets)]

\* the body of the loop of TokenTextEncoder.encode for one token
TokenId(e, token) ==
  LET int_id == DictZipGet(e.tokens, token) IN
  IF int_id < 0 THEN OovBucket(e, token) ELSE [none |-> FALSE, id |-> int_id]

\* the tokens TokenTextEncoder.encode looks up
EncodeTokens(e, s) ==
  Tokenize(e.tokenizer, IF e.lowercase THEN Lower(s) ELSE s)

TokenEncode(e, s) ==
  LET tokens == EncodeTokens(e, s)
      got == [i \in 1..Len(tokens) |-> TokenId(e, tokens[i])]
  IN IF \E i \in 1..Len(got) : got[i].none THEN Raise("ValueError")
     ELSE Ok(PadIncr([i \in 1..Len(got) |-> got[i].id]))

\* the token of one id in TokenTextEncoder.decode: a list index of -1 is the
\* last element, and raises IndexError on the empty list
DecodeId(e, int_id) ==
  IF int_id < Len(e.tokens)
  THEN (IF int_id >= 0 THEN Ok(e.tokens[int_id + 1])
        ELSE IF int_id + Len(e.tokens) >= 0 THEN Ok(e.tokens[int_id + Len(e.tokens) + 1])
        ELSE Raise("IndexError"))
  ELSE Ok(e.oov_token)

TokenDecode(e, ids) ==
  LET d == PadDecr(ids) IN
  IF d.status # "ok" THEN d
  ELSE LET got == [i \in 1..Len(d.val) |-> DecodeId(e, d.val[i])] IN
       IF \E i \in 1..Len(got) : got[i].status # "ok" THEN Raise("IndexError")
       ELSE Ok(JoinWith(Space, [i \in 1..Len(got) |-> got[i].val]))

EncodeOf(e, s) == IF e.kind = "byte" THEN ByteEncode(e, s) ELSE TokenEncode(e, s)
DecodeOf(e, ids) == IF e.kind = "byte" THEN ByteDecode(e, ids) ELSE TokenDecode(e, ids)

(***************************************************************************)
(* The file format.  A file is its header line (the class name), its       *)
(* metadata line (the JSON object, a record) and the characters that       *)
(* follow them.                                                            *)
(***************************************************************************)
NL == <<10>>

NoMeta ==
  [oov_buckets |-> 0, lowercase |-> FALSE, oov_token |-> <<>>,
   tokenizer_file_prefix |-> FALSE, reserved_tokens |-> <<>>, alphanum_only |-> FALSE]

NoFile == [exists |-> FALSE, header |-> "", meta |-> NoMeta, body |-> <<>>]

NoFiles == [bytes |-> NoFile, tokens |-> NoFile, tokenizer |-> NoFile]

WriteLinesToFile(cls_name, lines, metadata_dict) ==
  [exists |-> TRUE, header |-> cls_name, meta |-> metadata_dict,
   body |-> JoinWith(NL, lines) \o NL]

\* the lines a file iterator yields, each with its terminator
RECURSIVE RawLines(_)
RawLines(body) ==
  IF body = <<>> THEN <<>>
  ELSE LET ks == {k \in 1..Len(body) : body[k] = NL[1]} IN
       IF ks = {} THEN <<body>>
       ELSE <<SubSeq(body, 1, Min(ks))>> \o RawLines(SubSeq(body, Min(ks) + 1, Len(body)))

\* read_lines_from_file: line[:-1] of every line after the two header lines
ReadLinesFromFile(cls_name, f) ==
  IF f.header # cls_name THEN [status |-> "ValueError", lines |-> <<>>, meta |-> NoMeta]
  ELSE LET raw == RawLines(f.body) IN
       [status |-> "ok",
        lines |-> [i \in 1..Len(raw) |-> SubSeq(raw[i], 1, Len(raw[i]) - 1)],
        meta |-> f.meta]

\* the orders list(set(xs)) can have
Orders(xs) ==
  {p \in [1..Len(xs) -> Range(xs)] : \A x \in Range(xs) : \E i \in 1..Len(xs) : p[i] = x}

\* Tokenizer.save_to_file; order is the order list(self._reserved_tokens) took
TokenizerSave(t, order) ==
  WriteLinesToFile("Tokenizer", <<>>,
                   [NoMeta EXCEPT !.reserved_tokens = order,
                                  !.alphanum_only = t.alphanum_only])

TokenizerLoad(f) ==
  LET r == ReadLinesFromFile("Tokenizer", f) IN
  IF r.status # "ok" THEN [status |-> r.status, obj |-> NoTokenizer]
  ELSE NewTokenizer(r.meta.alphanum_only, r.meta.reserved_tokens)

\* save_to_file of either encoder: the files after it
SaveEncoder(e, fs, order) ==
  IF e.kind = "byte"
  THEN [fs EXCEPT !.bytes = WriteLinesToFile("ByteTextEncoder", e.tokens, NoMeta)]
  ELSE LET kwargs == [NoMeta EXCEPT !.oov_buckets = e.oov_buckets,
                                    !.lowercase = e.lowercase,
                                    !.oov_token = e.oov_token,
                                    !.tokenizer_file_prefix = e.user_tokenizer]
       IN [fs EXCEPT
             !.tokenizer = IF e.user_tokenizer THEN TokenizerSave(e.tokenizer, order)
                           ELSE @,
             !.tokens = WriteLinesToFile("TokenTextEncoder", e.tokens, kwargs)]

\* load_from_file of the class kind
LoadEncoder(kind, fs) ==
  IF kind = "byte"
  THEN LET r == ReadLinesFromFile("ByteTextEncoder", fs.bytes) IN
       IF r.status # "ok" THEN [status |-> r.status, obj |-> NoEncoder]
       ELSE NewByteTextEncoder(r.lines)
  ELSE LET r == ReadLinesFromFile("TokenTextEncoder", fs.tokens)
           t == IF r.meta.tokenizer_file_prefix THEN TokenizerLoad(fs.tokenizer)
                ELSE [status |-> "ok", obj |-> NoTokenizer]
       IN IF r.status # "ok" THEN [status |-> r.status, obj |-> NoEncoder]
          ELSE IF t.status # "ok" THEN [status |-> t.status, obj |-> NoEncoder]
          ELSE NewTokenTextEncoder(r.lines, r.meta.oov_buckets, r.meta.oov_token,
                                   r.meta.lowercase, r.meta.tokenizer_file_prefix, t.obj)

(***************************************************************************)
(* Inputs.                                                                 *)
(***************************************************************************)
\* "a", " A" (stripped by the constructor), "a-A" (mixed, hence reserved)
VocabTokens == {<<97>>, <<32, 65>>, <<97, 45, 65>>}
VocabLists == SeqsUpTo(VocabTokens, MaxVocab)

\* "a-", "-"
AdditionalTokens == {<<97, 45>>, <<45>>}
AdditionalTokenLists == SeqsUpTo(AdditionalTokens, MaxVocab)

OovBucketCounts == (-1)..MaxOov

\* "UNK" (the default), "a"
OovTokens == {UNK, <<97>>}

\* the tokenizers passed to TokenTextEncoder: Tokenizer(alphanum_only=False)
\* and Tokenizer(reserved_tokens=["a-", "a-A"])
UserTokenizers ==
  {NewTokenizer(FALSE, <<>>).obj,
   NewTokenizer(TRUE, <<(<<97, 45>>), (<<97, 45, 65>>)>>).obj}

\* "a-", "a-A": reserved tokens of a Tokenizer built on its own
ReservedTokens == {<<97, 45>>, <<97, 45, 65>>}
ReservedTokenLists == SeqsUpTo(ReservedTokens, MaxVocab)

TextsOf(e) ==
  IF e.kind = "byte" THEN SeqsUpTo(ByteAlphabet, MaxTextLen)
  ELSE SeqsUpTo(Alphabet, MaxTextLen)

IdSeqs == SeqsUpTo(0..MaxId, MaxIdsLen)

(***************************************************************************)
(* The state machine: an encoder (or a tokenizer) is constructed, then a    *)
(* method is called on it.  The objects are immutable, so the result of a  *)
(* call does not depend on the calls before it: a behaviour makes one call *)
(* and then the calls that take its result as their argument.  op names    *)
(* the last call, arg the argument of the first, res its result; res2 and  *)
(* res3 hold the results of the calls that follow on its result (after a   *)
(* load, res2 is the result of the same call on the loaded encoder).       *)
(***************************************************************************)
Init ==
  /\ pc = "start"
  /\ enc = NoEncoder
  /\ enc2 = NoEncoder
  /\ files = NoFiles
  /\ tkz = NoTokenizer
  /\ op = "none"
  /\ arg = <<>>
  /\ res = NoResult
  /\ res2 = NoResult
  /\ res3 = NoResult
  /\ toks = <<>>

\* ByteTextEncoder(additional_tokens)
ConstructByte ==
  /\ pc = "start"
  /\ \E additional_tokens \in AdditionalTokenLists :
       LET r == NewByteTextEncoder(additional_tokens) IN
         /\ pc' = IF r.status = "ok" THEN "ready" ELSE "failed"
         /\ enc' = r.obj
  /\ op' = "init"
  /\ UNCHANGED <<enc2, files, tkz, arg, res, res2, res3, toks>>

\* TokenTextEncoder(vocab_list, oov_buckets, oov_token, lowercase)
ConstructToken ==
  /\ pc = "start"
  /\ \E vocab_list \in VocabLists, oov_buckets \in OovBucketCounts,
        oov_token \in OovTokens, lowercase \in BOOLEAN :
       LET r == NewTokenTextEncoder(vocab_list, oov_buckets, oov_token, lowercase,
                                    FALSE, NoTokenizer) IN
         /\ pc' = IF r.status = "ok" THEN "ready" ELSE "failed"
         /\ enc' = r.obj
  /\ op' = "init"
  /\ UNCHANGED <<enc2, files, tkz, arg, res, res2, res3, toks>>

\* TokenTextEncoder(vocab_list, oov_buckets, oov_token, lowercase, tokenizer=t)
ConstructTokenWithTokenizer ==
  /\ pc = "start"
  /\ \E vocab_list \in VocabLists, oov_buckets \in OovBucketCounts,
        oov_token \in OovTokens, lowercase \in BOOLEAN, t \in UserTokenizers :
       LET r == NewTokenTextEncoder(vocab_list, oov_buckets, oov_token, lowercase,
                                    TRUE, t) IN
         /\ pc' = IF r.status = "ok" THEN "ready" ELSE "failed"
         /\ enc' = r.obj
  /\ op' = "init"
  /\ UNCHANGED <<enc2, files, tkz, arg, res, res2, res3, toks>>

\* enc.encode(s)
Encode ==
  /\ pc = "ready"
  /\ op = "init"
  /\ \E s \in TextsOf(enc) :
       /\ op' = "encode"
       /\ arg' = s
       /\ res' = EncodeOf(enc, s)
  /\ res2' = NoResult
  /\ res3' = NoResult
  /\ UNCHANGED <<pc, enc, enc2, files, tkz, toks>>

\* enc.decode(ids)
Decode ==
  /\ pc = "ready"
  /\ op = "init"
  /\ \E ids \in IdSeqs :
       /\ op' = "decode"
       /\ arg' = ids
       /\ res' = DecodeOf(enc, ids)
  /\ res2' = NoResult
  /\ res3' = NoResult
  /\ UNCHANGED <<pc, enc, enc2, files, tkz, toks>>

\* enc.decode(enc.encode(s)): decode called on what encode returned
DecodeEncoded ==
  /\ pc = "ready"
  /\ op = "encode"
  /\ res.status = "ok"
  /\ op' = "encode_decode"
  /\ res2' = DecodeOf(enc, res.val)
  /\ UNCHANGED <<pc, enc, enc2, files, tkz, arg, res, res3, toks>>

\* enc.encode(enc.decode(enc.encode(s)))
EncodeDecoded ==
  /\ pc = "ready"
  /\ op = "encode_decode"
  /\ res2.status = "ok"
  /\ op' = "encode_decode_encode"
  /\ res3' = EncodeOf(enc, res2.val)
  /\ UNCHANGED <<pc, enc, enc2, files, tkz, arg, res, res2, toks>>

Next ==
  \/ ConstructByte
  \/ ConstructToken
  \/ ConstructTokenWithTokenizer
  \/ Encode
  \/ Decode
  \/ DecodeEncoded
  \/ EncodeDecoded

Spec == Init /\ [][Next]_vars

(***************************************************************************)
(* Persistence: the encoder is saved, loaded back as enc2, and both are    *)
(* given the same calls.                                                   *)
(***************************************************************************)
\* enc.save_to_file(prefix)
SaveToFile ==
  /\ pc = "ready"
  /\ op = "init"
  /\ \E order \in Orders(enc.tokenizer.reserved) :
       files' = SaveEncoder(enc, files, order)
  /\ pc' = "saved"
  /\ op' = "save_to_file"
  /\ UNCHANGED <<enc, enc2, tkz, arg, res, res2, res3, toks>>

\* enc2 = type(enc).load_from_file(prefix)
LoadFromFile ==
  /\ pc = "saved"
  /\ LET r == LoadEncoder(enc.kind, files) IN
       /\ pc' = IF r.status = "ok" THEN "loaded" ELSE "load_failed"
       /\ enc2' = r.obj
  /\ op' = "load_from_file"
  /\ UNCHANGED <<enc, files, tkz, arg, res, res2, res3, toks>>

\* enc.encode(s) and enc2.encode(s)
EncodeBoth ==
  /\ pc = "loaded"
  /\ op = "load_from_file"
  /\ \E s \in TextsOf(enc) :
       /\ op' = "encode"
       /\ arg' = s
       /\ res' = EncodeOf(enc, s)
       /\ res2' = EncodeOf(enc2, s)
  /\ UNCHANGED <<pc, enc, enc2, files, tkz, res3, toks>>

\* enc.decode(ids) and enc2.decode(ids)
DecodeBoth ==
  /\ pc = "loaded"
  /\ op = "load_from_file"
  /\ \E ids \in IdSeqs :
       /\ op' = "decode"
       /\ arg' = ids
       /\ res' = DecodeOf(enc, ids)
       /\ res2' = DecodeOf(enc2, ids)
  /\ UNCHANGED <<pc, enc, enc2, files, tkz, res3, toks>>

NextPersist ==
  \/ ConstructByte
  \/ ConstructToken
  \/ ConstructTokenWithTokenizer
  \/ SaveToFile
  \/ LoadFromFile
  \/ EncodeBoth
  \/ DecodeBoth

SpecPersist == Init /\ [][NextPersist]_vars

(***************************************************************************)
(* A Tokenizer used on its own.                                            *)
(***************************************************************************)
\* Tokenizer(alphanum_only, reserved_tokens)
ConstructTokenizer ==
  /\ pc = "start"
  /\ \E alphanum_only \in BOOLEAN, reserved_tokens \in ReservedTokenLists :
       LET r == NewTokenizer(alphanum_only, reserved_tokens) IN
         /\ pc' = IF r.status = "ok" THEN "ready" ELSE "failed"
         /\ tkz' = r.obj
  /\ op' = "init"
  /\ UNCHANGED <<enc, enc2, files, arg, res, res2, res3, toks>>

\* toks = tkz.tokenize(s)
TokenizeText ==
  /\ pc = "ready"
  /\ op = "init"
  /\ \E s \in SeqsUpTo(Alphabet, MaxTextLen) :
       /\ arg' = s
       /\ toks' = Tokenize(tkz, s)
  /\ op' = "tokenize"
  /\ res' = NoResult
  /\ UNCHANGED <<pc, enc, enc2, files, tkz, res2, res3>>

\* tkz.join(toks)
JoinTokens ==
  /\ pc = "ready"
  /\ op = "tokenize"
  /\ op' = "join"
  /\ res' = Ok(Join(tkz, toks))
  /\ UNCHANGED <<pc, enc, enc2, files, tkz, arg, res2, res3, toks>>

NextTokenizer ==
  \/ ConstructTokenizer
  \/ TokenizeText
  \/ JoinTokens

SpecTokenizer == Init /\ [][NextTokenizer]_vars

(***************************************************************************)
(* The claims.                                                             *)
(***************************************************************************)
EncodeOps == {"encode", "encode_decode", "encode_decode_encode"}

\* ids with every 0 removed
RemoveZeros(ids) == SelectSeq(ids, LAMBDA i : i # 0)

\* the 1-based positions of token in a vocabulary list
Positions(vocab, token) == {k \in 1..Len(vocab) : vocab[k] = token}

AllWord(tok) == \A i \in 1..Len(tok) : IsWord(tok[i])
AllNonWord(tok) == \A i \in 1..Len(tok) : ~IsWord(tok[i])

\* C1: whenever encode returns (a ByteTextEncoder, or a TokenTextEncoder with
\* oov_buckets >= 0), every id it returns is at least 1 and below vocab_size:
\* the pad id 0 is never produced.
C1_EncodeIdsInRange ==
  (pc = "ready" /\ op \in EncodeOps /\ (enc.kind = "token" => enc.oov_buckets >= 0))
    => \A r \in {res, res3} :
         r.status = "ok" => \A i \in 1..Len(r.val) : 1 <= r.val[i] /\ r.val[i] < VocabSize(enc)

\* C1, reached: an encode that returned both the lowest id, 1, and the highest,
\* vocab_size - 1 (the last OOV bucket of two).
C1_Witness ==
  /\ op = "encode" /\ enc.kind = "token" /\ enc.oov_buckets = 2 /\ res.status = "ok"
  /\ \E i, j \in 1..Len(res.val) : res.val[i] = 1 /\ res.val[j] = VocabSize(enc) - 1

\* C2: a ByteTextEncoder without additional tokens decodes what it encoded to
\* exactly the text it was given, for every text.
C2_ByteRoundTrip ==
  (op = "encode_decode" /\ enc.kind = "byte" /\ enc.tokens = <<>>) => res2 = Ok(arg)

\* C3: the encoder loaded from the file an encoder was saved to has the same
\* vocab_size and returns what the saved encoder returns, for every text given
\* to encode and every id sequence given to decode.
C3_SaveLoadPreserves ==
  /\ pc # "load_failed"
  /\ pc = "loaded" =>
       /\ VocabSize(enc2) = VocabSize(enc)
       /\ op \in {"encode", "decode"} => res2 = res

\* C4: a TokenTextEncoder with oov_buckets >= 1 decodes whatever it encoded,
\* and encoding the decoded text gives the ids of the first encode again.
C4_TokenRoundTrip ==
  (pc = "ready" /\ enc.kind = "token" /\ enc.oov_buckets >= 1) =>
    /\ op = "encode_decode" => res2.status = "ok"
    /\ op = "encode_decode_encode" => res3 = res

\* C5: decode drops the pad id 0 wherever it occurs: decode(ids) is
\* decode(ids with every 0 removed).
C5_DecodeDropsAllPads ==
  (pc = "ready" /\ op = "decode") => res = DecodeOf(enc, RemoveZeros(arg))

\* C6: encode of the empty text returns the empty id sequence and decode of the
\* empty id sequence returns the empty text, neither raising.
C6_EmptyInEmptyOut ==
  (pc = "ready" /\ arg = <<>>) =>
    /\ op = "encode" => res = Ok(<<>>)
    /\ op = "decode" => res = Ok(<<>>)

\* C7: with alphanum_only = False and no reserved tokens, joining the tokens of
\* a text gives the text back, and every token is a non-empty run of word
\* characters only or of non-word characters only.
C7_TokenizeJoinInverse ==
  (op = "join" /\ ~tkz.alphanum_only /\ tkz.reserved = <<>>) =>
    /\ res = Ok(arg)
    /\ \A i \in 1..Len(toks) :
         toks[i] # <<>> /\ (AllWord(toks[i]) \/ AllNonWord(toks[i]))

\* C7, reached: a text of a word run, a non-word run and a word run, tokenized
\* into three tokens and joined.
C7_Witness ==
  /\ op = "join" /\ ~tkz.alphanum_only /\ tkz.reserved = <<>>
  /\ Len(toks) = 3 /\ AllWord(toks[1]) /\ AllNonWord(toks[2]) /\ AllWord(toks[3])

\* C8: a ByteTextEncoder with at least one additional token decodes what it
\* encoded to the text it was given (ids below the number of additional tokens
\* to the token, the others to the byte they stand for).  Stated for texts of
\* at least one character, whose encoding decode does not reject as empty.
C8_ByteDecodeInvertsWithTokens ==
  (op = "encode_decode" /\ enc.kind = "byte" /\ Len(enc.tokens) >= 1 /\ arg # <<>>)
    => res2 = Ok(arg)

\* C9: with oov_buckets <= 0, encode raises (returning no ids) when a token of
\* the text, at any position, is not in the vocabulary; otherwise it returns one
\* id per token, the id of that token.  The tokens are those encode looks up:
\* the tokens of the text, lowercased first when lowercase is set.
C9_NoBucketsRaises ==
  (pc = "ready" /\ op = "encode" /\ enc.kind = "token" /\ enc.oov_buckets <= 0) =>
    LET tokens == EncodeTokens(enc, arg) IN
    IF \E i \in 1..Len(tokens) : tokens[i] \notin Range(enc.tokens)
    THEN res = Raise("ValueError")
    ELSE /\ res.status = "ok"
         /\ Len(res.val) = Len(tokens)
         /\ \A i \in 1..Len(tokens) :
              res.val[i] \in 1..Len(enc.tokens) /\ enc.tokens[res.val[i]] = tokens[i]

\* C9, reached: encode raised on a text whose first token is in the vocabulary
\* and whose second is not.
C9_Witness ==
  /\ op = "encode" /\ enc.kind = "token" /\ enc.oov_buckets <= 0
  /\ res = Raise("ValueError")
  /\ LET tokens == EncodeTokens(enc, arg) IN
       /\ Len(tokens) = 2
       /\ tokens[1] \in Range(enc.tokens)
       /\ tokens[2] \notin Range(enc.tokens)

\* C10 as stated: once a TokenTextEncoder is constructed, a token that occurs at
\* several positions of its (stripped, lowercased) vocabulary is encoded as its
\* first position (the first index plus 1).
C10_DuplicateMapsToFirst ==
  (pc = "ready" /\ op = "encode" /\ enc.kind = "token" /\ res.status = "ok") =>
    LET tokens == EncodeTokens(enc, arg) IN
    \A i \in 1..Len(tokens) :
      Cardinality(Positions(enc.tokens, tokens[i])) >= 2
        => res.val[i] = Min(Positions(enc.tokens, tokens[i]))

\* C10, amended: such a token is encoded as its last position (the last index
\* plus 1), wherever the tokenizer yields it.
C10_DuplicateMapsToLast ==
  (pc = "ready" /\ op = "encode" /\ enc.kind = "token" /\ res.status = "ok") =>
    LET tokens == EncodeTokens(enc, arg) IN
    \A i \in 1..Len(tokens) :
      LET ps == Positions(enc.tokens, tokens[i]) IN
      Cardinality(ps) >= 2 => \A k \in ps : k <= res.val[i] /\ res.val[i] \in ps

\* C10, reached: the vocabulary holds one token twice only after lowercasing
\* ("a" and " A"), and encode returned 2 for it.
C10_Witness ==
  /\ op = "encode" /\ enc.kind = "token" /\ enc.lowercase /\ res.status = "ok"
  /\ enc.tokens = <<(<<97>>), (<<97>>)>>
  /\ arg = <<65>>
  /\ res.val = <<2>>

====
